---- MODULE Spec2Model ----
(***************************************************************************)
(* A model of scripts/render.py: the text wrapping engine (_wrap_words,    *)
(* set_wrapped_text), the block layout engine (set_multiline_block), the   *)
(* width estimator, the style-variable patcher, the source-value resolver  *)
(* and the render / batch loop (render_one, main).                         *)
(*                                                                         *)
(* Texts are sequences of one-character strings.  Lengths that the source  *)
(* computes in floating point are kept exact by scaling: vertical          *)
(* positions are counted in twentieths of a user unit (y20 = 20 * y).      *)
(***************************************************************************)
EXTENDS Integers, Sequences, FiniteSets, TLC

VARIABLES
    \* ---- _wrap_words / set_wrapped_text ----
    wtext,          \* the value handed to set_wrapped_text
    wmax_chars,     \* max_chars
    wgiven,         \* max_lines is not None
    wmax_lines,     \* max_lines (0 when it is None)
    wlines,         \* the natural wrap: _wrap_words(value, max_chars)
    wemitted,       \* the texts of the tspans set_wrapped_text appended
    wpc,            \* "input" -> "wrapped" -> "emitted"
    \* ---- set_multiline_block ----
    bel,            \* the anchor element: its x, y and font-size attributes
    bheader,        \* header (the empty text stands for None and for "")
    bitems,         \* items
    bmax_chars,     \* max_chars
    bmax_lines_total,   \* max_lines_total
    bcenter,        \* center_vertically
    btspans,        \* the tspans appended to the element, in order
    bpc,            \* "input" -> "done"
    \* ---- _estimate_max_chars_for_element ----
    eel,            \* the element: its x and font-size attributes
    eright,         \* right_boundary_x
    epad,           \* padding_px
    est,            \* the returned estimate
    epc,            \* "input" -> "done"
    \* ---- render_one.get ----
    gdata,          \* the release record: a mapping from keys to YAML values
    gdefaults,      \* the template defaults: a mapping from keys to strings
    gkey,           \* key
    gfallback,      \* fallback
    gresult,        \* the returned str
    gpc,            \* "input" -> "done"
    \* ---- set_css_var_in_style ----
    css,            \* the text of <style id="css_vars">
    clast,          \* per variable name, the value of its latest patch
    cn,             \* the number of patches applied
    \* ---- render_one / main ----
    template,       \* the template file: the ids it holds, t_release's attributes
    files,          \* sorted(glob.glob(releases_glob)): the release records
    mpc,            \* main: "start", "loop", "in_render", "returned", "crashed"
    mi,             \* main: the index in files of the current record
    rpc,            \* render_one: the step about to run, or "idle" / "raised"
    tree,           \* the in-memory document of the current render
    artist_lines,   \* the line count set_wrapped_text returned for t_artist
    attempted,      \* the records render_one was called for
    failed,         \* the records whose render raised
    rerror,         \* what the raised error names ("" when nothing was raised)
    release_ys,     \* per render, the y handed to t_release's first tspan
    written,        \* the records whose label.svg was written
    exported        \* the records inkscape_export was invoked for, in order

wrapVars == <<wtext, wmax_chars, wgiven, wmax_lines, wlines, wemitted, wpc>>
blockVars == <<bel, bheader, bitems, bmax_chars, bmax_lines_total, bcenter,
               btspans, bpc>>
estVars == <<eel, eright, epad, est, epc>>
getVars == <<gdata, gdefaults, gkey, gfallback, gresult, gpc>>
cssVars == <<css, clast, cn>>
renderVars == <<template, files, mpc, mi, rpc, tree, artist_lines, attempted,
                failed, rerror, release_ys, written, exported>>
vars == <<wrapVars, blockVars, estVars, getVars, cssVars, renderVars>>

-----------------------------------------------------------------------------
(* Bounds of the model *)

MaxLen == 7         \* longest text handed to the wrapping engine
MaxWidth == 3       \* widest max_chars tried on the wrapping engine
MaxLines == 2       \* largest max_lines tried
MaxItems == 2       \* most items handed to set_multiline_block
MaxTotal == 3       \* largest max_lines_total tried
MaxPatches == 3     \* most style-variable patches applied to one style block
MaxFiles == 2       \* most release records in one batch run
MaxMissing == 1     \* most ids a template lacks

-----------------------------------------------------------------------------
(* Texts *)

Min(a, b) == IF a <= b THEN a ELSE b
Max(a, b) == IF a >= b THEN a ELSE b

\* the one-character marker U+2026 that line 100 appends
ELLIPSIS == "U+2026"

\* str.isspace / the regex class \s, on the characters the model uses
IsSpace(c) == c \in {" ", "\t", "\n"}

\* all texts over alphabet A of length at most n
TextsUpTo(A, n) == UNION {[1..k -> A] : k \in 0..n}

RECURSIVE LStripFrom(_, _)
LStripFrom(s, i) ==
    IF i <= Len(s) /\ IsSpace(s[i]) THEN LStripFrom(s, i + 1) ELSE i

RECURSIVE RStripFrom(_, _)
RStripFrom(s, j) ==
    IF j >= 1 /\ IsSpace(s[j]) THEN RStripFrom(s, j - 1) ELSE j

\* str.strip()
Strip(s) == SubSeq(s, LStripFrom(s, 1), RStripFrom(s, Len(s)))

\* s[:n] and s[n:] for n >= 0
Take(s, n) == SubSeq(s, 1, Min(n, Len(s)))
Drop(s, n) == SubSeq(s, Min(n, Len(s)) + 1, Len(s))

\* the end (exclusive) of the run of characters of one class starting at i
RECURSIVE RunEnd(_, _, _)
RunEnd(s, i, sp) ==
    IF i <= Len(s) /\ IsSpace(s[i]) = sp THEN RunEnd(s, i + 1, sp) ELSE i

\* re.split(r"(\s+)", text) of a stripped, non-empty text: the words and the
\* whitespace runs between them, in order (line 59)
RECURSIVE SplitFrom(_, _)
SplitFrom(s, i) ==
    IF i > Len(s) THEN <<>>
    ELSE LET j == RunEnd(s, i, IsSpace(s[i]))
         IN  <<SubSeq(s, i, j - 1)>> \o SplitFrom(s, j)

Split(s) == SplitFrom(s, 1)

-----------------------------------------------------------------------------
(* _wrap_words (lines 55-85) *)

\* line 66 with the operands of the comparison swapped by one: lets a line
\* grow one character past the budget
Fits_OffByOne(candidate, line, max_chars) ==
    Len(Strip(candidate)) <= max_chars + 1 \/ line = <<>>

\* line 66: the token is taken onto the current line
Fits(candidate, line, max_chars) ==
    Len(Strip(candidate)) <= max_chars \/ line = <<>>

\* lines 62-70: the greedy loop over the tokens from index k on; acc holds the
\* lines closed so far and the growing line
RECURSIVE Accumulate(_, _, _, _)
Accumulate(words, k, acc, max_chars) ==
    IF k > Len(words) THEN acc
    ELSE LET token == words[k]
             candidate == acc.line \o token
         IN  IF token = <<>> THEN Accumulate(words, k + 1, acc, max_chars)
             ELSE IF Fits(candidate, acc.line, max_chars)
             THEN Accumulate(words, k + 1,
                             [lines |-> acc.lines, line |-> candidate], max_chars)
             ELSE Accumulate(words, k + 1,
                             [lines |-> Append(acc.lines, Strip(acc.line)),
                              line |-> Strip(token)], max_chars)

\* lines 60-72: the greedy lines, the last line flushed when it is not blank
GreedyLines(text, max_chars) ==
    LET acc == Accumulate(Split(text), 1, [lines |-> <<>>, line |-> <<>>], max_chars)
    IN  IF Strip(acc.line) # <<>> THEN Append(acc.lines, Strip(acc.line))
        ELSE acc.lines

\* lines 79-84: one over-long line cut into max_chars-wide hyphenated chunks
RECURSIVE HardBreak(_, _)
HardBreak(s, max_chars) ==
    IF Len(s) > max_chars
    THEN <<Append(Take(s, max_chars), "-")>> \o HardBreak(Drop(s, max_chars), max_chars)
    ELSE IF s # <<>> THEN <<s>> ELSE <<>>

\* lines 74-84
RECURSIVE FixLines(_, _, _)
FixLines(lines, k, max_chars) ==
    IF k > Len(lines) THEN <<>>
    ELSE (IF Len(lines[k]) <= max_chars THEN <<lines[k]>>
          ELSE HardBreak(lines[k], max_chars))
         \o FixLines(lines, k + 1, max_chars)

_wrap_words(text, max_chars) ==
    LET t == Strip(text)
    IN  IF t = <<>> THEN << <<>> >>
        ELSE LET fixed == FixLines(GreedyLines(t, max_chars), 1, max_chars)
             IN  IF fixed = <<>> THEN << <<>> >> ELSE fixed

-----------------------------------------------------------------------------
(* set_wrapped_text (lines 87-111) *)

\* line 100 without the cut to max_chars - 1: the marker is always appended
EllipsisLine_NoCut(last, max_chars) == Append(last, ELLIPSIS)

\* line 100: the last surviving line with its ellipsis marker
EllipsisLine(last, max_chars) ==
    IF Len(last) >= max_chars
    THEN Append(Take(last, Max(0, max_chars - 1)), ELLIPSIS)
    ELSE Append(last, ELLIPSIS)

\* lines 96-100: the lines set_wrapped_text emits, one tspan each; given is
\* "max_lines is not None", and "if max_lines and ..." is false of None and of 0
WrappedLines(lines, max_chars, given, max_lines) ==
    IF given /\ max_lines # 0 /\ Len(lines) > max_lines
    THEN LET cut == SubSeq(lines, 1, max_lines)
         IN  [cut EXCEPT ![max_lines] = EllipsisLine(cut[max_lines], max_chars)]
    ELSE lines

-----------------------------------------------------------------------------
(* The wrapping engine on every text, width and line budget within bounds *)

WrapAlphabet == {"a", " ", "-"}

WrapInit ==
    /\ wtext \in TextsUpTo(WrapAlphabet, MaxLen)
    /\ wmax_chars \in 1..MaxWidth
    /\ wgiven \in BOOLEAN
    /\ wmax_lines \in (IF wgiven THEN 0..MaxLines ELSE {0})
    /\ wlines = <<>>
    /\ wemitted = <<>>
    /\ wpc = "input"

\* line 96
WrapWords ==
    /\ wpc = "input"
    /\ wlines' = _wrap_words(wtext, wmax_chars)
    /\ wpc' = "wrapped"
    /\ UNCHANGED <<wtext, wmax_chars, wgiven, wmax_lines, wemitted>>
    /\ UNCHANGED <<blockVars, estVars, getVars, cssVars, renderVars>>

\* lines 97-111
EmitWrapped ==
    /\ wpc = "wrapped"
    /\ wemitted' = WrappedLines(wlines, wmax_chars, wgiven, wmax_lines)
    /\ wpc' = "emitted"
    /\ UNCHANGED <<wtext, wmax_chars, wgiven, wmax_lines, wlines>>
    /\ UNCHANGED <<blockVars, estVars, getVars, cssVars, renderVars>>

WrapNext == WrapWords \/ EmitWrapped

\* the wrapping engine at rest, while another component is exercised
WrapIdle ==
    /\ wtext = <<>> /\ wmax_chars = 1 /\ wgiven = FALSE /\ wmax_lines = 0
    /\ wlines = <<>> /\ wemitted = <<>> /\ wpc = "idle"

-----------------------------------------------------------------------------
(* set_multiline_block (lines 113-149) *)

\* a text written out as its characters
SIDE_A == <<"S", "I", "D", "E", " ", "A">>

\* float(el.get("font-size", dflt)): the attribute, or the default without it
FontSize(el, dflt) == IF el.has_font_size THEN el.font_size ELSE dflt

\* line 122, line_h = font_size * 1.1, in twentieths of a unit
LineH20(font_size) == 22 * font_size

\* lines 128-129: the wrapped lines of the items from index k on, in order
RECURSIVE ItemLines(_, _, _)
ItemLines(items, k, max_chars) ==
    IF k > Len(items) THEN <<>>
    ELSE _wrap_words(items[k], max_chars) \o ItemLines(items, k + 1, max_chars)

\* lines 125-129 with the header extended after the items
AllLines_HeaderLast(header, items, max_chars) ==
    ItemLines(items, 1, max_chars)
    \o (IF header # <<>> THEN _wrap_words(header, max_chars) ELSE <<>>)

\* lines 125-129: header lines, then the lines of each item
AllLines(header, items, max_chars) ==
    (IF header # <<>> THEN _wrap_words(header, max_chars) ELSE <<>>)
    \o ItemLines(items, 1, max_chars)

\* lines 130-131: "if max_lines_total and ..." is false of 0
CapLines(lines, max_lines_total) ==
    IF max_lines_total # 0 /\ Len(lines) > max_lines_total
    THEN SubSeq(lines, 1, max_lines_total)
    ELSE lines

\* lines 134-137 with the division by 2.0 left out
StartY20_NoHalf(y, line_h20, n, center_vertically) ==
    IF center_vertically /\ n > 0 THEN 20 * y - line_h20 * (n - 1) ELSE 20 * y

\* lines 134-137: the first baseline, in twentieths of a unit
StartY20(y, line_h20, n, center_vertically) ==
    IF center_vertically /\ n > 0
    THEN 20 * y - (line_h20 * (n - 1)) \div 2
    ELSE 20 * y

\* lines 140-148: one tspan per line; the first carries y, the later ones
\* dy="1.1em" (dy_em10 counts tenths of an em)
Tspans(lines, x, start_y20) ==
    [i \in 1..Len(lines) |->
        IF i = 1
        THEN [x |-> x, attr |-> "y", y20 |-> start_y20, dy_em10 |-> 0, text |-> lines[i]]
        ELSE [x |-> x, attr |-> "dy", y20 |-> 0, dy_em10 |-> 11, text |-> lines[i]]]

set_multiline_block(el, header, items, max_chars, max_lines_total, center_vertically) ==
    LET font_size == FontSize(el, 42)
        lines == CapLines(AllLines(header, items, max_chars), max_lines_total)
        start_y20 == StartY20(el.y, LineH20(font_size), Len(lines), center_vertically)
    IN  Tspans(lines, el.x, start_y20)

HeaderTexts == {<<>>, SIDE_A, <<"a", "a">>}
ItemTexts == {<<>>, <<"a">>, <<"a", " ", "a">>, <<"a", "a", "a", "a", "a">>}
BlockElements ==
    {[x |-> 140, y |-> 500, has_font_size |-> TRUE, font_size |-> 50],
     [x |-> 1000, y |-> 1380, has_font_size |-> FALSE, font_size |-> 0]}

BlockInit ==
    /\ bel \in BlockElements
    /\ bheader \in HeaderTexts
    /\ bitems \in UNION {[1..k -> ItemTexts] : k \in 0..MaxItems}
    /\ bmax_chars \in 1..MaxWidth
    /\ bmax_lines_total \in 0..MaxTotal
    /\ bcenter \in BOOLEAN
    /\ btspans = <<>>
    /\ bpc = "input"

SetMultilineBlock ==
    /\ bpc = "input"
    /\ btspans' = set_multiline_block(bel, bheader, bitems, bmax_chars,
                                      bmax_lines_total, bcenter)
    /\ bpc' = "done"
    /\ UNCHANGED <<bel, bheader, bitems, bmax_chars, bmax_lines_total, bcenter>>
    /\ UNCHANGED <<wrapVars, estVars, getVars, cssVars, renderVars>>

BlockNext == SetMultilineBlock

BlockIdle ==
    /\ bel = [x |-> 0, y |-> 0, has_font_size |-> FALSE, font_size |-> 0]
    /\ bheader = <<>> /\ bitems = <<>> /\ bmax_chars = 1
    /\ bmax_lines_total = 0 /\ bcenter = FALSE /\ btspans = <<>> /\ bpc = "idle"

-----------------------------------------------------------------------------
(* _estimate_max_chars_for_element (lines 151-158) *)

MONOLITH_X == 923
MONOLITH_GAP == 220
\* TRACK_LETTER_SPACING_EM = 0.06 and the glyph width 0.60, in hundredths of an em
TRACK_LETTER_SPACING_EM100 == 6
GLYPH_WIDTH_EM100 == 60

\* line 155, char_px, in hundredths of a unit
CharPx100(font_size) == font_size * (GLYPH_WIDTH_EM100 + TRACK_LETTER_SPACING_EM100)

\* line 156
WidthPx(x, right_boundary_x, padding_px) == Max(0, right_boundary_x - padding_px - x)

\* line 157 without the floor of 8
Estimate_NoFloor(width_px, char_px100) ==
    (width_px * 100) \div Max(100, char_px100)

\* line 157: max(8, int(width_px // max(1.0, char_px)))
Estimate(width_px, char_px100) ==
    Max(8, (width_px * 100) \div Max(100, char_px100))

_estimate_max_chars_for_element(el, right_boundary_x, padding_px) ==
    Estimate(WidthPx(el.x, right_boundary_x, padding_px),
             CharPx100(FontSize(el, 42)))

EstElementX == {0, 140, 400, 687, 693, 697, 703, 1000}
EstFontSizes == {0, 1, 2, 10, 42, 54}
EstElements ==
    {[x |-> x, has_font_size |-> TRUE, font_size |-> f] :
        x \in EstElementX, f \in EstFontSizes}
    \cup {[x |-> x, has_font_size |-> FALSE, font_size |-> 0] : x \in EstElementX}

EstInit ==
    /\ eel \in EstElements
    /\ eright \in {MONOLITH_X - MONOLITH_GAP, 400}
    /\ epad \in {6, 10}
    /\ est = 0
    /\ epc = "input"

EstimateMaxChars ==
    /\ epc = "input"
    /\ est' = _estimate_max_chars_for_element(eel, eright, epad)
    /\ epc' = "done"
    /\ UNCHANGED <<eel, eright, epad>>
    /\ UNCHANGED <<wrapVars, blockVars, getVars, cssVars, renderVars>>

EstNext == EstimateMaxChars

EstIdle ==
    /\ eel = [x |-> 0, has_font_size |-> FALSE, font_size |-> 0]
    /\ eright = 0 /\ epad = 0 /\ est = 0 /\ epc = "idle"

-----------------------------------------------------------------------------
(* render_one.get (lines 250-255) *)

\* YAML values: a str, an int or None
PyStr(t) == [type |-> "str", s |-> t, n |-> 0]
PyInt(i) == [type |-> "int", s |-> "", n |-> i]
PyNone == [type |-> "NoneType", s |-> "", n |-> 0]

\* str(v)
Str(v) ==
    CASE v.type = "str" -> v.s
      [] v.type = "int" -> ToString(v.n)
      [] OTHER -> "None"

\* key.upper(), on the keys the model uses
Upper(key) ==
    CASE key = "catalog" -> "CATALOG"
      [] key = "label" -> "LABEL"
      [] OTHER -> key

\* dict.get(key, dflt)
DictGet(d, key, dflt) == IF key \in DOMAIN d THEN d[key] ELSE dflt

\* lines 253-255 without the "is not None" test
get_NullWins(data, defaults, key, fallback) ==
    IF key \in DOMAIN data
    THEN Str(data[key])
    ELSE Str(DictGet(defaults, Upper(key), fallback))

\* lines 250-255
get(data, defaults, key, fallback) ==
    IF key \in DOMAIN data /\ data[key] # PyNone
    THEN Str(data[key])
    ELSE Str(DictGet(defaults, Upper(key), fallback))

RecordKeys == {"catalog", "label"}
RecordValues == {PyNone, PyStr("X"), PyStr(""), PyInt(7)}
DefaultKeys == {"CATALOG", "LABEL", "catalog"}
DefaultValues == {PyStr("Y"), PyStr("")}
Fallbacks == {PyStr("Z"), PyStr(""), PyNone}

GetInit ==
    /\ gdata \in UNION {[D -> RecordValues] : D \in SUBSET RecordKeys}
    /\ gdefaults \in UNION {[D -> DefaultValues] : D \in SUBSET DefaultKeys}
    /\ gkey \in RecordKeys
    /\ gfallback \in Fallbacks
    /\ gresult = ""
    /\ gpc = "input"

Get ==
    /\ gpc = "input"
    /\ gresult' = get(gdata, gdefaults, gkey, gfallback)
    /\ gpc' = "done"
    /\ UNCHANGED <<gdata, gdefaults, gkey, gfallback>>
    /\ UNCHANGED <<wrapVars, blockVars, estVars, cssVars, renderVars>>

GetNext == Get

GetIdle ==
    /\ gdata = <<>> /\ gdefaults = <<>> /\ gkey = "catalog"
    /\ gfallback = PyNone /\ gresult = "" /\ gpc = "idle"

-----------------------------------------------------------------------------
(* set_css_var_in_style (lines 160-178) *)

\* texts written out as their characters
NEON_BG == <<"n", "e", "o", "n", "-", "b", "g">>
NEON_INK == <<"n", "e", "o", "n", "-", "i", "n", "k">>
ROOT == <<":", "r", "o", "o", "t">>
RED == <<"#", "F", "0", "0">>
GREEN == <<"#", "0", "F", "0">>
BLACK == <<"#", "0", "0", "0">>

\* the text s holds the literal lit at index i
HasAt(s, i, lit) ==
    /\ i >= 1
    /\ i + Len(lit) - 1 <= Len(s)
    /\ SubSeq(s, i, i + Len(lit) - 1) = lit

\* the first index >= i holding the character c, or 0
RECURSIVE IndexFrom(_, _, _)
IndexFrom(s, i, c) ==
    IF i > Len(s) THEN 0
    ELSE IF s[i] = c THEN i ELSE IndexFrom(s, i + 1, c)

\* line 171: the match of (--name\s*:\s*)([^;]+)(;) that starts at index i:
\* the span of the value group and the index of the semicolon; ok is FALSE
\* when the pattern does not match there.  \s* is greedy but gives back its
\* last character when nothing else is left for [^;]+
DeclMatchAt(s, i, var_name) ==
    LET lit == <<"-", "-">> \o var_name
        colon == RunEnd(s, i + Len(lit), TRUE)
        after == colon + 1
        semi == IndexFrom(s, after, ";")
        first == RunEnd(s, after, TRUE)
    IN  IF /\ HasAt(s, i, lit)
           /\ colon <= Len(s) /\ s[colon] = ":"
           /\ semi > after
        THEN [ok |-> TRUE,
              from |-> IF first < semi THEN first ELSE semi - 1,
              semi |-> semi]
        ELSE [ok |-> FALSE, from |-> 0, semi |-> 0]

\* re.search / re.sub(count=1): the leftmost index where the pattern matches, or 0
RECURSIVE DeclSearch(_, _, _)
DeclSearch(s, i, var_name) ==
    IF i > Len(s) THEN 0
    ELSE IF DeclMatchAt(s, i, var_name).ok THEN i
    ELSE DeclSearch(s, i + 1, var_name)

\* line 176: the index of the "{" that ends the leftmost match of :root\s*\{, or 0
RECURSIVE RootSearch(_, _)
RootSearch(s, i) ==
    IF i > Len(s) THEN 0
    ELSE LET brace == RunEnd(s, i + Len(ROOT), TRUE)
         IN  IF HasAt(s, i, ROOT) /\ brace <= Len(s) /\ s[brace] = "{"
             THEN brace
             ELSE RootSearch(s, i + 1)

\* the text line 176 inserts after the brace
Injected(var_name, value) ==
    <<"\n", " ", " ", " ", " ", " ", " ", " ", " ", "-", "-">>
    \o var_name \o <<":">> \o value \o <<";">>

\* lines 168-178: the style text after the patch
set_css_var_in_style(s, var_name, value) ==
    LET at == DeclSearch(s, 1, var_name)
    IN  IF at # 0
        THEN LET m == DeclMatchAt(s, at, var_name)
             IN  SubSeq(s, 1, m.from - 1) \o value \o SubSeq(s, m.semi, Len(s))
        ELSE LET brace == RootSearch(s, 1)
             IN  IF brace # 0
                 THEN SubSeq(s, 1, brace) \o Injected(var_name, value)
                      \o SubSeq(s, brace + 1, Len(s))
                 ELSE s

CssNames == {NEON_BG, NEON_INK}
CssValues == {RED, GREEN}

\* style blocks a template may carry: empty; a bare :root block; :root with
\* one or both variables declared, or with a last declaration that has no
\* semicolon; rules but no :root block
StyleTexts ==
    { <<>>,
      ROOT \o <<"{", "-", "-">> \o NEON_INK \o <<":">> \o BLACK \o <<"}">>,
      ROOT \o <<"{", "}">>,
      ROOT \o <<"{", "-", "-">> \o NEON_BG \o <<":">> \o BLACK \o <<";", "}">>,
      ROOT \o <<" ", "{", "\n", " ", "-", "-">> \o NEON_BG \o <<":", " ">> \o BLACK
           \o <<";", "\n", " ", "-", "-">> \o NEON_INK \o <<" ", ":", " ">> \o BLACK
           \o <<";", "\n", "}">>,
      <<"t", "e", "x", "t", "{", "f", "i", "l", "l", ":">> \o BLACK \o <<";", "}">> }

CssInit ==
    /\ css \in StyleTexts
    /\ clast = [n \in CssNames |-> <<>>]
    /\ cn = 0

SetCssVar ==
    /\ cn < MaxPatches
    /\ \E var_name \in CssNames, value \in CssValues :
          /\ css' = set_css_var_in_style(css, var_name, value)
          /\ clast' = [clast EXCEPT ![var_name] = value]
    /\ cn' = cn + 1
    /\ UNCHANGED <<wrapVars, blockVars, estVars, getVars, renderVars>>

CssNext == SetCssVar

CssIdle == css = <<>> /\ clast = <<>> /\ cn = 0

-----------------------------------------------------------------------------
(* render_one (lines 240-356) and main (lines 358-371) *)

\* the ids render_one looks up, in the order it does
RenderSteps ==
    <<"t_label", "t_coord_lat", "t_coord_lon", "t_artist", "t_release",
      "t_bottom", "css_vars", "t_tracks_a", "t_tracks_b">>
AllIds == {RenderSteps[i] : i \in 1..Len(RenderSteps)}

\* the program position after the step for an id
AfterStep(id) ==
    CASE id = "t_label" -> "t_coord_lat"
      [] id = "t_coord_lat" -> "t_coord_lon"
      [] id = "t_coord_lon" -> "t_artist"
      [] id = "t_artist" -> "shift"
      [] id = "t_release" -> "t_bottom"
      [] id = "t_bottom" -> "css_vars"
      [] id = "css_vars" -> "t_tracks_a"
      [] id = "t_tracks_a" -> "t_tracks_b"
      [] id = "t_tracks_b" -> "write"

Rep(c, n) == [i \in 1..n |-> c]
SERIAL_PREFIX == <<"S", "E", "R", "I", "A", "L", ":", " ">>

\* lines 272-275: the artist text, "SERIAL: ..." when the record gives none
\* (the model's records and defaults give no serial)
ArtistVal(record) ==
    IF record.artist = <<>> THEN SERIAL_PREFIX ELSE record.artist

\* lines 44-46, 88-90, 114-116, 164-166: the lookup finds nothing, skipped
\* silently
ElementMissing_Skipped(doc, element_id) == FALSE

\* lines 44-46, 88-90, 114-116, 164-166: the lookup finds nothing and the
\* function raises
ElementMissing(doc, element_id) == element_id \notin doc.present

\* lines 244-246: the document parsed from the template file
Parse(tmpl) ==
    [present |-> tmpl.present,
     rel_has_y |-> tmpl.rel_has_y, rel_y20 |-> 20 * tmpl.rel_y,
     rel_has_fs |-> tmpl.rel_has_fs, rel_fs |-> tmpl.rel_fs,
     populated |-> {}]

NoTree ==
    [present |-> {}, rel_has_y |-> FALSE, rel_y20 |-> 0,
     rel_has_fs |-> FALSE, rel_fs |-> 0, populated |-> {}]

\* lines 285-287 with the shift counted from zero lines
ShiftedY20_OffByOne(doc, lines) ==
    (IF doc.rel_has_y THEN doc.rel_y20 ELSE 20 * 585)
    + lines * LineH20(IF doc.rel_has_fs THEN doc.rel_fs ELSE 54)

\* lines 285-287: new_y, in twentieths
ShiftedY20(doc, lines) ==
    (IF doc.rel_has_y THEN doc.rel_y20 ELSE 20 * 585)
    + (lines - 1) * LineH20(IF doc.rel_has_fs THEN doc.rel_fs ELSE 54)

ArtistTexts ==
    {<<>>, Rep("a", 5), Rep("a", 10) \o <<" ">> \o Rep("b", 10), Rep("a", 40)}
FileRecords ==
    {[readable |-> TRUE, artist |-> a] : a \in ArtistTexts}
    \cup {[readable |-> FALSE, artist |-> <<>>]}
ReleaseAttrs ==
    {[rel_has_y |-> FALSE, rel_y |-> 0, rel_has_fs |-> FALSE, rel_fs |-> 0],
     [rel_has_y |-> TRUE, rel_y |-> 585, rel_has_fs |-> TRUE, rel_fs |-> 54],
     [rel_has_y |-> TRUE, rel_y |-> 600, rel_has_fs |-> TRUE, rel_fs |-> 40]}
Templates ==
    {[present |-> AllIds \ M,
      rel_has_y |-> a.rel_has_y, rel_y |-> a.rel_y,
      rel_has_fs |-> a.rel_has_fs, rel_fs |-> a.rel_fs] :
        M \in {X \in SUBSET AllIds : Cardinality(X) <= MaxMissing},
        a \in ReleaseAttrs}

RenderInit ==
    /\ template \in Templates
    /\ files \in UNION {[1..k -> FileRecords] : k \in 0..MaxFiles}
    /\ mpc = "start" /\ mi = 0
    /\ rpc = "idle" /\ tree = NoTree /\ artist_lines = 0
    /\ attempted = {} /\ failed = {} /\ rerror = ""
    /\ release_ys = {} /\ written = {} /\ exported = <<>>

\* the function at hand raises; main (lines 367-368) has no handler, so the
\* error leaves main as well
Raise(what) ==
    /\ rerror' = what
    /\ failed' = failed \cup {mi}
    /\ rpc' = "raised"
    /\ mpc' = "crashed"

\* lines 362-365
MainStart ==
    /\ mpc = "start"
    /\ IF files = <<>> THEN mpc' = "returned" /\ mi' = mi
       ELSE mpc' = "loop" /\ mi' = 1
    /\ UNCHANGED <<template, files, rpc, tree, artist_lines, attempted, failed,
                   rerror, release_ys, written, exported>>
    /\ UNCHANGED <<wrapVars, blockVars, estVars, getVars, cssVars>>

\* lines 367-368: the next record is handed to render_one
CallRender ==
    /\ mpc = "loop" /\ mi <= Len(files)
    /\ attempted' = attempted \cup {mi}
    /\ mpc' = "in_render" /\ rpc' = "open"
    /\ UNCHANGED <<template, files, mi, tree, artist_lines, failed, rerror,
                   release_ys, written, exported>>
    /\ UNCHANGED <<wrapVars, blockVars, estVars, getVars, cssVars>>

\* line 371
MainReturn ==
    /\ mpc = "loop" /\ mi > Len(files)
    /\ mpc' = "returned"
    /\ UNCHANGED <<template, files, mi, rpc, tree, artist_lines, attempted,
                   failed, rerror, release_ys, written, exported>>
    /\ UNCHANGED <<wrapVars, blockVars, estVars, getVars, cssVars>>

\* lines 241-242: a record that cannot be read or parsed raises
OpenRecord ==
    /\ rpc = "open"
    /\ IF files[mi].readable
       THEN rpc' = "parse" /\ UNCHANGED <<mpc, failed, rerror>>
       ELSE Raise("yaml")
    /\ UNCHANGED <<template, files, mi, tree, artist_lines, attempted,
                   release_ys, written, exported>>
    /\ UNCHANGED <<wrapVars, blockVars, estVars, getVars, cssVars>>

\* lines 244-248
ParseTemplate ==
    /\ rpc = "parse"
    /\ tree' = Parse(template)
    /\ rpc' = "t_label"
    /\ UNCHANGED <<template, files, mpc, mi, artist_lines, attempted, failed,
                   rerror, release_ys, written, exported>>
    /\ UNCHANGED <<wrapVars, blockVars, estVars, getVars, cssVars>>

\* lines 263, 268, 269, 293 (set_text), 301-302 (set_css_var_in_style) and
\* 342, 345 (set_multiline_block): the element is populated, or the call raises
SetElement ==
    /\ rpc \in AllIds \ {"t_artist", "t_release"}
    /\ IF ElementMissing(tree, rpc)
       THEN Raise(rpc) /\ UNCHANGED tree
       ELSE /\ tree' = [tree EXCEPT !.populated = @ \cup {rpc}]
            /\ rpc' = AfterStep(rpc)
            /\ UNCHANGED <<mpc, failed, rerror>>
    /\ UNCHANGED <<template, files, mi, artist_lines, attempted, release_ys,
                   written, exported>>
    /\ UNCHANGED <<wrapVars, blockVars, estVars, getVars, cssVars>>

\* line 280: set_wrapped_text(root, "t_artist", artist_val, 16, 2)
WrapArtist ==
    /\ rpc = "t_artist"
    /\ IF ElementMissing(tree, "t_artist")
       THEN Raise("t_artist") /\ UNCHANGED <<tree, artist_lines>>
       ELSE /\ artist_lines' =
                  Len(WrappedLines(_wrap_words(ArtistVal(files[mi]), 16), 16, TRUE, 2))
            /\ tree' = [tree EXCEPT !.populated = @ \cup {"t_artist"}]
            /\ rpc' = AfterStep("t_artist")
            /\ UNCHANGED <<mpc, failed, rerror>>
    /\ UNCHANGED <<template, files, mi, attempted, release_ys, written, exported>>
    /\ UNCHANGED <<wrapVars, blockVars, estVars, getVars, cssVars>>

\* lines 282-288: t_release's y is moved down when the artist wrapped
ShiftRelease ==
    /\ rpc = "shift"
    /\ IF "t_release" \in tree.present
       THEN tree' = [tree EXCEPT !.rel_has_y = TRUE,
                                 !.rel_y20 = ShiftedY20(tree, artist_lines)]
       ELSE UNCHANGED tree
    /\ rpc' = "t_release"
    /\ UNCHANGED <<template, files, mpc, mi, artist_lines, attempted, failed,
                   rerror, release_ys, written, exported>>
    /\ UNCHANGED <<wrapVars, blockVars, estVars, getVars, cssVars>>

\* line 289: set_wrapped_text(root, "t_release", ...): the first tspan takes
\* the element's y (lines 94, 106)
WrapRelease ==
    /\ rpc = "t_release"
    /\ IF ElementMissing(tree, "t_release")
       THEN Raise("t_release") /\ UNCHANGED <<tree, release_ys>>
       ELSE /\ release_ys' = release_ys \cup
                  {[file |-> mi, y20 |-> tree.rel_y20, artist_lines |-> artist_lines]}
            /\ tree' = [tree EXCEPT !.populated = @ \cup {"t_release"}]
            /\ rpc' = AfterStep("t_release")
            /\ UNCHANGED <<mpc, failed, rerror>>
    /\ UNCHANGED <<template, files, mi, artist_lines, attempted, written, exported>>
    /\ UNCHANGED <<wrapVars, blockVars, estVars, getVars, cssVars>>

\* lines 348-349
WriteSvg ==
    /\ rpc = "write"
    /\ written' = written \cup {mi}
    /\ rpc' = "export"
    /\ UNCHANGED <<template, files, mpc, mi, tree, artist_lines, attempted,
                   failed, rerror, release_ys, exported>>
    /\ UNCHANGED <<wrapVars, blockVars, estVars, getVars, cssVars>>

\* line 354
Export ==
    /\ rpc = "export"
    /\ exported' = Append(exported, mi)
    /\ rpc' = "return"
    /\ UNCHANGED <<template, files, mpc, mi, tree, artist_lines, attempted,
                   failed, rerror, release_ys, written>>
    /\ UNCHANGED <<wrapVars, blockVars, estVars, getVars, cssVars>>

\* lines 356, 368-369: render_one returns and the loop moves on
RenderReturn ==
    /\ rpc = "return"
    /\ rpc' = "idle"
    /\ mpc' = "loop" /\ mi' = mi + 1
    /\ UNCHANGED <<template, files, tree, artist_lines, attempted, failed,
                   rerror, release_ys, written, exported>>
    /\ UNCHANGED <<wrapVars, blockVars, estVars, getVars, cssVars>>

RenderNext ==
    \/ MainStart \/ CallRender \/ MainReturn
    \/ OpenRecord \/ ParseTemplate \/ SetElement \/ WrapArtist
    \/ ShiftRelease \/ WrapRelease \/ WriteSvg \/ Export \/ RenderReturn

RenderIdle ==
    /\ template = NoTree /\ files = <<>> /\ mpc = "idle" /\ mi = 0
    /\ rpc = "idle" /\ tree = NoTree /\ artist_lines = 0
    /\ attempted = {} /\ failed = {} /\ rerror = ""
    /\ release_ys = {} /\ written = {} /\ exported = <<>>

-----------------------------------------------------------------------------
(* Specifications: one component exercised at a time, the others at rest *)

InitWrap == WrapInit /\ BlockIdle /\ EstIdle /\ GetIdle /\ CssIdle /\ RenderIdle
SpecWrap == InitWrap /\ [][WrapNext]_vars

InitBlock == BlockInit /\ WrapIdle /\ EstIdle /\ GetIdle /\ CssIdle /\ RenderIdle
SpecBlock == InitBlock /\ [][BlockNext]_vars

InitEst == EstInit /\ WrapIdle /\ BlockIdle /\ GetIdle /\ CssIdle /\ RenderIdle
SpecEst == InitEst /\ [][EstNext]_vars

InitGet == GetInit /\ WrapIdle /\ BlockIdle /\ EstIdle /\ CssIdle /\ RenderIdle
SpecGet == InitGet /\ [][GetNext]_vars

InitCss == CssInit /\ WrapIdle /\ BlockIdle /\ EstIdle /\ GetIdle /\ RenderIdle
SpecCss == InitCss /\ [][CssNext]_vars

InitRender == RenderInit /\ WrapIdle /\ BlockIdle /\ EstIdle /\ GetIdle /\ CssIdle
SpecRender == InitRender /\ [][RenderNext]_vars

-----------------------------------------------------------------------------
(* Claims about the wrapping engine *)

\* the words of a text: its maximal runs of non-whitespace characters
WordsOf(s) ==
    {SubSeq(s, p[1], p[2]) : p \in
        {q \in (1..Len(s)) \X (1..Len(s)) :
            /\ q[1] <= q[2]
            /\ \A i \in q[1]..q[2] : ~IsSpace(s[i])
            /\ (q[1] = 1 \/ IsSpace(s[q[1] - 1]))
            /\ (q[2] = Len(s) \/ IsSpace(s[q[2] + 1]))}}

\* ln is the k-th full chunk (k from 0) of the word t hard-broken at width w:
\* w characters of t and a hyphen, with more of t still to come
IsChunkOf(ln, t, k, w) ==
    /\ (k + 1) * w < Len(t)
    /\ ln = Append(SubSeq(t, k * w + 1, (k + 1) * w), "-")

\* nxt is what follows the k-th chunk of t: the next full chunk, or the
\* unmarked remainder of t, which is at most w long
FollowsChunk(nxt, t, k, w) ==
    IF (k + 2) * w < Len(t)
    THEN IsChunkOf(nxt, t, k + 1, w)
    ELSE nxt = SubSeq(t, (k + 1) * w + 1, Len(t)) /\ Len(nxt) <= w

HasSpace(ln) == \E j \in 1..Len(ln) : IsSpace(ln[j])

\* C1: every line of _wrap_words(s, w), w >= 1, is at most w long, or is a
\* hard-break chunk: exactly w characters of one whitespace-free word of s
\* followed by one "-", and then followed in the list by the next chunk of that
\* word or by its unmarked remainder of length <= w.  No line holding more
\* than one word (so: holding whitespace) is longer than w.
C1_WrapLineBound ==
    wpc # "input" =>
        \A i \in 1..Len(wlines) :
            LET ln == wlines[i]
            IN  /\ (HasSpace(ln) => Len(ln) <= wmax_chars)
                /\ Len(ln) > wmax_chars =>
                     /\ Len(ln) = wmax_chars + 1
                     /\ i < Len(wlines)
                     /\ \E t \in WordsOf(wtext) : \E k \in 0..Len(t) :
                            /\ IsChunkOf(ln, t, k, wmax_chars)
                            /\ FollowsChunk(wlines[i + 1], t, k, wmax_chars)

\* C1 witness: the wrap of a text of several words, one of them hard-broken
\* into two hyphenated chunks and a remainder
C1_Witness ==
    /\ wpc = "wrapped"
    /\ Cardinality(WordsOf(wtext)) >= 2
    /\ \E i \in 1..Len(wlines) :
          /\ i + 2 <= Len(wlines)
          /\ Len(wlines[i]) > wmax_chars
          /\ Len(wlines[i + 1]) > wmax_chars
          /\ Len(wlines[i + 2]) <= wmax_chars

CountOf(ln, c) == Cardinality({j \in 1..Len(ln) : ln[j] = c})

\* the emitted lines are the natural lines cut to n, the n-th carrying the marker
TruncatedTo(n) ==
    /\ Len(wemitted) = n
    /\ \A i \in 1..(n - 1) : wemitted[i] = wlines[i]
    /\ LET last == wemitted[n]
       IN  /\ Len(last) >= 1
           /\ Len(last) <= wmax_chars
           /\ last[Len(last)] = ELLIPSIS
           /\ CountOf(last, ELLIPSIS) = 1
           /\ SubSeq(last, 1, Len(last) - 1) = Take(wlines[n], Len(last) - 1)

\* C2 as stated: for a given max_lines n the emitted line count is
\* min(n, natural count); over the budget the first n natural lines are kept,
\* the last replaced by a line ending in one ellipsis marker of length <= w;
\* within the budget the lines are unchanged.
C2_AsStated ==
    (wpc = "emitted" /\ wgiven) =>
        /\ Len(wemitted) = Min(wmax_lines, Len(wlines))
        /\ Len(wlines) > wmax_lines => TruncatedTo(wmax_lines)
        /\ Len(wlines) <= wmax_lines => wemitted = wlines

\* C2 amended: the same for max_lines n >= 1; with max_lines 0 (as with None)
\* nothing is cut and no marker is added.
C2_TruncateFromOne ==
    wpc = "emitted" =>
        IF wgiven /\ wmax_lines >= 1
        THEN /\ Len(wemitted) = Min(wmax_lines, Len(wlines))
             /\ Len(wlines) > wmax_lines => TruncatedTo(wmax_lines)
             /\ Len(wlines) <= wmax_lines => wemitted = wlines
        ELSE wemitted = wlines

\* C2 witness: a truncation whose last surviving line had to be cut to make
\* room for the marker
C2_Witness ==
    /\ wpc = "emitted"
    /\ wgiven /\ wmax_lines >= 1
    /\ Len(wlines) > wmax_lines
    /\ Len(wlines[wmax_lines]) >= wmax_chars
    /\ wemitted # wlines

-----------------------------------------------------------------------------
(* Claims about the block layout engine *)

\* the font size the block was laid out with, and its advance in twentieths
BlockFontSize == IF bel.has_font_size THEN bel.font_size ELSE 42
Advance20 == 22 * BlockFontSize

\* the baseline of the i-th tspan, in twentieths: the first tspan's y, and
\* each dy of d tenths of an em (an em being the font size) further down
RECURSIVE Baseline20(_, _)
Baseline20(tspans, i) ==
    IF i = 1 THEN tspans[1].y20
    ELSE Baseline20(tspans, i - 1) + 2 * tspans[i].dy_em10 * BlockFontSize

\* C5: with n lines emitted and advance = fontSize x 1.1, the first baseline is
\* anchorY - (n - 1) x advance / 2 when center_vertically is set (445 for
\* anchorY 500, fontSize 50, n 3) and anchorY when it is not; every later line
\* is one advance below its predecessor; every line carries the anchor's x.
C5_BlockBaselines ==
    bpc = "done" =>
        LET n == Len(btspans)
        IN  /\ n >= 1 =>
                /\ btspans[1].attr = "y"
                /\ bcenter => 2 * btspans[1].y20 = 40 * bel.y - (n - 1) * Advance20
                /\ ~bcenter => btspans[1].y20 = 20 * bel.y
                /\ (bcenter /\ bel.y = 500 /\ BlockFontSize = 50 /\ n = 3)
                       => btspans[1].y20 = 20 * 445
            /\ \A i \in 2..n :
                /\ btspans[i].attr = "dy"
                /\ Baseline20(btspans, i) = Baseline20(btspans, i - 1) + Advance20
            /\ \A i \in 1..n : btspans[i].x = bel.x

\* C5 witness: the block of the example, centred: anchor y 500, font size 50,
\* three lines
C5_Witness ==
    /\ bpc = "done" /\ bcenter
    /\ bel.y = 500 /\ BlockFontSize = 50
    /\ Len(btspans) = 3

\* the natural lines of the header and of the j-th item, and where the j-th
\* item's lines start in the concatenation
HeaderWrap == IF bheader # <<>> THEN _wrap_words(bheader, bmax_chars) ELSE <<>>
ItemWrap(j) == _wrap_words(bitems[j], bmax_chars)
RECURSIVE ItemOffset(_)
ItemOffset(j) == IF j = 1 THEN Len(HeaderWrap) ELSE ItemOffset(j - 1) + Len(ItemWrap(j - 1))
CandidateCount == ItemOffset(Len(bitems) + 1)

\* the emitted texts are the first `count` lines of the concatenation: header
\* lines first, then each item's lines at its offset, none of them altered
EmitsPrefix(count) ==
    /\ Len(btspans) = count
    /\ \A k \in 1..Len(HeaderWrap) :
          k <= count => btspans[k].text = HeaderWrap[k]
    /\ \A j \in 1..Len(bitems) : \A k \in 1..Len(ItemWrap(j)) :
          ItemOffset(j) + k <= count => btspans[ItemOffset(j) + k].text = ItemWrap(j)[k]
    /\ \A i \in 1..Len(btspans) : CountOf(btspans[i].text, ELLIPSIS) = 0

\* C6 as stated: the emitted lines are the wrapped header lines followed by
\* the wrapped lines of each item in order; when there are more than
\* max_lines_total of them, exactly the first max_lines_total, with no
\* ellipsis marker; otherwise all of them.
C6_AsStated ==
    bpc = "done" =>
        EmitsPrefix(Min(bmax_lines_total, CandidateCount))

\* C6 amended: the same for max_lines_total >= 1; with max_lines_total 0 the
\* block is not capped and the whole concatenation is emitted.
C6_BlockLinesCapped ==
    bpc = "done" =>
        IF bmax_lines_total >= 1
        THEN EmitsPrefix(Min(bmax_lines_total, CandidateCount))
        ELSE EmitsPrefix(CandidateCount)

\* C6 witness: a header and two items, each contributing lines, cut by the cap
C6_Witness ==
    /\ bpc = "done"
    /\ bheader # <<>> /\ Len(bitems) = 2
    /\ bmax_lines_total >= 1
    /\ CandidateCount > bmax_lines_total
    /\ ItemOffset(2) < bmax_lines_total

-----------------------------------------------------------------------------
(* Claims about the width estimator *)

\* the available width as the claim writes it, and the average glyph width
\* floored at one unit, in hundredths
AvailableWidth == eright - epad - eel.x
GlyphDen100 ==
    LET fs == IF eel.has_font_size THEN eel.font_size ELSE 42
    IN  IF fs * 66 > 100 THEN fs * 66 ELSE 100

\* C7: the estimate is an integer >= 8; it is exactly 8 when the available
\* width is not positive; otherwise it is max(8, floor(availableWidth /
\* max(1, fontSize x 0.66))): q is that floor iff q * den <= width < (q+1) * den.
C7_EstimateFloor ==
    epc = "done" =>
        /\ est \in Int /\ est >= 8
        /\ AvailableWidth <= 0 => est = 8
        /\ AvailableWidth > 0 =>
              \/ est = 8 /\ AvailableWidth * 100 < 9 * GlyphDen100
              \/ /\ est > 8
                 /\ est * GlyphDen100 <= AvailableWidth * 100
                 /\ AvailableWidth * 100 < (est + 1) * GlyphDen100

\* C7 witness: an element at or beyond the boundary, so no width is available
C7_Witness ==
    /\ epc = "done"
    /\ AvailableWidth <= 0
    /\ eel.has_font_size /\ eel.font_size > 0

-----------------------------------------------------------------------------
(* Claims about the source-value resolver *)

RecordHas == gkey \in DOMAIN gdata /\ gdata[gkey].type # "NoneType"
DefaultsHave == Upper(gkey) \in DOMAIN gdefaults

\* C4: get(key, fallback) always returns a string, chosen by strict
\* precedence: the record's value under the key when present and non-null;
\* otherwise the defaults' value under the upper-cased key when present;
\* otherwise the fallback.
C4_ResolverPrecedence ==
    gpc = "done" =>
        /\ gresult \in STRING
        /\ RecordHas => gresult = Str(gdata[gkey])
        /\ (~RecordHas /\ DefaultsHave) => gresult = gdefaults[Upper(gkey)].s
        /\ (~RecordHas /\ ~DefaultsHave) => gresult = Str(gfallback)

\* C4 witness: the record holds null under the key, the defaults hold a value
\* under the upper-cased key, and the default is returned, not the fallback
C4_Witness ==
    /\ gpc = "done"
    /\ gkey \in DOMAIN gdata /\ gdata[gkey] = PyNone
    /\ DefaultsHave /\ gdefaults[Upper(gkey)] = PyStr("Y")
    /\ gfallback = PyStr("Z")
    /\ gresult = "Y"

-----------------------------------------------------------------------------
(* Claims about the style-variable patcher *)

\* the indices where a declaration of the variable begins: --name, optional
\* whitespace, a colon
DeclStarts(s, var_name) ==
    {i \in 1..Len(s) :
        LET lit == <<"-", "-">> \o var_name
            colon == RunEnd(s, i + Len(lit), TRUE)
        IN  HasAt(s, i, lit) /\ colon <= Len(s) /\ s[colon] = ":"}

\* the value of the declaration beginning at i: the text between its colon
\* and the next semicolon, stripped
DeclValue(s, i, var_name) ==
    LET colon == RunEnd(s, i + 2 + Len(var_name), TRUE)
        semi == IndexFrom(s, colon + 1, ";")
    IN  IF semi = 0 THEN Strip(SubSeq(s, colon + 1, Len(s)))
        ELSE Strip(SubSeq(s, colon + 1, semi - 1))

\* C3: after any sequence of patches of one style block, every variable
\* patched at least once has exactly one --name: declaration in the text, and
\* its value is that of the latest patch of that name, whether or not the
\* declaration or a :root block existed before the first patch.
C3_OneDeclarationPerPatchedVar ==
    \A var_name \in CssNames :
        clast[var_name] # <<>> =>
            /\ Cardinality(DeclStarts(css, var_name)) = 1
            /\ \A i \in DeclStarts(css, var_name) :
                   DeclValue(css, i, var_name) = clast[var_name]

-----------------------------------------------------------------------------
(* Claims about render_one and main *)

Missing == AllIds \ template.present

\* the position of a step in render_one: look-ups in order, then write,
\* export, return
StepIndex(pc) ==
    CASE pc \in AllIds -> CHOOSE i \in 1..Len(RenderSteps) : RenderSteps[i] = pc
      [] pc = "shift" -> 4
      [] pc = "write" -> 10
      [] pc = "export" -> 11
      [] pc = "return" -> 12
      [] OTHER -> 0

\* C8: a render whose template lacks one of the elements the engine must
\* populate, or the css_vars style, ends in a raised error naming the missing
\* element; no required element is silently skipped; in such a render the
\* document is never written and export is never invoked; export is invoked
\* only at the very end of a render in which every mutation succeeded.
\* (The error names the element when the record itself could be read.)
C8_MissingElementAborts ==
    /\ Missing # {} => (written = {} /\ exported = <<>>)
    /\ (rpc = "raised" /\ files[mi].readable) => (rerror \in Missing)
    /\ (mpc \in {"returned", "crashed"} /\ attempted # {} /\ Missing # {})
          => rpc = "raised"
    /\ \A i \in 1..Len(RenderSteps) :
          (StepIndex(rpc) > i \/ (rpc = "shift" /\ i = 4))
              => RenderSteps[i] \in tree.populated
    /\ \A k \in 1..Len(exported) :
          /\ exported[k] \in written
          /\ \A j \in 1..Len(exported) : exported[j] = exported[k] => j = k
    /\ rpc = "return" => (tree.populated = AllIds /\ exported[Len(exported)] = mi)

\* C8 witness: the template lacks the css_vars style; the render populated
\* the elements before it and then raised the error naming css_vars
C8_Witness ==
    /\ rpc = "raised" /\ rerror = "css_vars"
    /\ Missing = {"css_vars"}
    /\ "t_bottom" \in tree.populated
    /\ written = {} /\ exported = <<>>

\* C9: in a batch run, a fatal error while rendering one record does not stop
\* the later records: when main has ended, every record after a failing one
\* was handed to render_one.
C9_LaterRecordsRendered ==
    mpc \in {"returned", "crashed"} =>
        \A i \in failed : \A j \in (i + 1)..Len(files) : j \in attempted

\* the y the template declares for t_release (585 without the attribute) and
\* the advance of its font size (54 without the attribute), in twentieths
DeclaredReleaseY20 == IF template.rel_has_y THEN 20 * template.rel_y ELSE 20 * 585
ReleaseAdvance20 == 22 * (IF template.rel_has_fs THEN template.rel_fs ELSE 54)

\* C10: in every render of a batch, the y given to the release element is the
\* template's declared release y plus (artistLines - 1) x fontSize x 1.1, with
\* artistLines (1 or 2) the line count of that render's artist text: the
\* shift does not accumulate over renders.
C10_ReleaseShiftFromTemplate ==
    \A g \in release_ys :
        /\ g.artist_lines \in {1, 2}
        /\ g.artist_lines = Min(2, Len(_wrap_words(ArtistVal(files[g.file]), 16)))
        /\ g.y20 = DeclaredReleaseY20 + (g.artist_lines - 1) * ReleaseAdvance20

\* C10 witness: the second render of a batch has placed its release element,
\* its artist wrapped to two lines as the first render's did, on a template
\* that declares the release y
C10_Witness ==
    /\ template.rel_has_y
    /\ \E g \in release_ys : g.file = 1 /\ g.artist_lines = 2
    /\ \E g \in release_ys : g.file = 2 /\ g.artist_lines = 2

====
